---- MODULE Spec2Model ----
(***************************************************************************)
(* A model of Pserv.py: BinTableData (bit-flag packing and column          *)
(* materialisation), create_csv_file_from_fits, create_schema_from_fits    *)
(* with write_schema_column / write_bit_schema_column, and                 *)
(* DbConnection.load_csv with check_column_names.                          *)
(*                                                                         *)
(* Strings that the code takes apart (column names, FITS format codes)     *)
(* are sequences of one-character strings.  Python longs are sequences of  *)
(* NumLimbs limbs of LimbBits bits, least significant limb first.          *)
(***************************************************************************)
EXTENDS Integers, Sequences, FiniteSets, TLC

VARIABLES
    pc,              \* position of each call: pack, csv, schema, load
    err,             \* the exception each call ended with, "none" if none
    flags,           \* pack_flags: the argument flags
    nbits,           \* pack_flags: the argument nbits
    values,          \* pack_flags: the returned list
    bintable,        \* the FITS binary table: columns with name, format, data
    added_columns,   \* create_csv_file_from_fits: added_columns as (name, value) items
    column_mapping,  \* create_csv_file_from_fits: column_mapping, or None
    callbacks,       \* create_csv_file_from_fits: callbacks as (name, function) items
    bintable_data,   \* the BinTableData: ordered keys and their series
    nrows,           \* BinTableData.nrows
    csv_output,      \* the csv file: "absent" or its rows written so far
    add_columns,     \* create_schema_from_fits: add_columns
    output,          \* the schema file: "absent" or its lines written so far
    table_columns,   \* the (COLUMN_NAME, DATA_TYPE) rows the database holds for the table
    data_types,      \* load_csv: the introspected (COLUMN_NAME, DATA_TYPE) rows
    csv_cols,        \* check_column_names: the names on the csv file's first line
    sql_log,         \* the statements the cursor has executed, in order
    commits          \* number of commits on the connection

vars == <<pc, err, flags, nbits, values, bintable, added_columns, column_mapping,
          callbacks, bintable_data, nrows, csv_output, add_columns, output,
          table_columns, data_types, csv_cols, sql_log, commits>>

packVars == <<flags, nbits, values>>
csvVars == <<added_columns, column_mapping, callbacks, bintable_data, nrows, csv_output>>
schemaVars == <<add_columns, output>>
loadVars == <<table_columns, data_types, csv_cols, sql_log, commits>>

-----------------------------------------------------------------------------
(* Bounds of the model *)

MaxFlags == 4          \* longest enumerated flag vector
MaxWidth == 3          \* widest enumerated chunk width below the default
MaxRows == 2           \* most records of a binary table
MaxCols == 2           \* most columns of a binary table

(* Program constants *)

DefaultNbits == 64     \* nbits=64, the default chunk width
colsize == 64          \* write_bit_schema_column's colsize
LimbBits == 16         \* representation of a long: bits per limb
NumLimbs == 5          \* representation of a long: limbs kept

-----------------------------------------------------------------------------
(* Python longs as limb sequences *)

\* 2**e for e below LimbBits
PowersOfTwo == <<1, 2, 4, 8, 16, 32, 64, 128, 256, 512, 1024, 2048, 4096, 8192, 16384, 32768>>

Pow2(e) == PowersOfTwo[e + 1]

LimbBase == 2 * Pow2(LimbBits - 1)

LongZero == [j \in 1..NumLimbs |-> 0]

\* long(2**i)
LongPow2(i) ==
    [j \in 1..NumLimbs |-> IF j = (i \div LimbBits) + 1 THEN Pow2(i % LimbBits) ELSE 0]

RECURSIVE AddLimbs(_, _, _, _)
AddLimbs(a, b, j, carry) ==
    IF j > NumLimbs THEN <<>>
    ELSE LET s == a[j] + b[j] + carry
         IN  <<s % LimbBase>> \o AddLimbs(a, b, j + 1, s \div LimbBase)

LongAdd(a, b) == AddLimbs(a, b, 1, 0)

\* (v >> i) & 1
LongBit(v, i) == (v[(i \div LimbBits) + 1] \div Pow2(i % LimbBits)) % 2

-----------------------------------------------------------------------------
(* BinTableData.pack_flags *)

\* int(np.ceil(float(n)/d))
CeilDiv(n, d) == (n + d - 1) \div d

Min(a, b) == IF a < b THEN a ELSE b

\* seq[lo:hi] with 0-based bounds, clipped to the sequence as Python slices are
Slice(seq, lo, hi) ==
    LET h == Min(hi, Len(seq))
    IN  IF lo >= h THEN <<>> ELSE [j \in 1..(h - lo) |-> seq[lo + j]]

\* sum([long(2**i) for i, flag in enumerate(subarr) if flag]) over the
\* positions lo..hi of subarr; the sum is taken by halves (addition of longs
\* is associative), which keeps the evaluation shallow
RECURSIVE SumSetBits(_, _, _)
SumSetBits(subarr, lo, hi) ==
    IF lo > hi THEN LongZero
    ELSE IF lo = hi THEN (IF subarr[lo + 1] THEN LongPow2(lo) ELSE LongZero)
    ELSE LET mid == (lo + hi) \div 2
         IN  LongAdd(SumSetBits(subarr, lo, mid), SumSetBits(subarr, mid + 1, hi))

\* a mutation of pack_flags: the first flag of a chunk in the chunk's highest bit
pack_flags_msb_first(fl, nb) ==
    LET num_ints == CeilDiv(Len(fl), nb)
        subarr(k) == Slice(fl, (k - 1) * nb, k * nb)
        rev(s) == [j \in 1..Len(s) |-> s[Len(s) + 1 - j]]
    IN  [k \in 1..num_ints |-> SumSetBits(rev(subarr(k)), 0, Len(subarr(k)) - 1)]

pack_flags(fl, nb) ==
    LET num_ints == CeilDiv(Len(fl), nb)
        subarr(k) == Slice(fl, (k - 1) * nb, k * nb)
    IN  [k \in 1..num_ints |-> SumSetBits(subarr(k), 0, Len(subarr(k)) - 1)]

-----------------------------------------------------------------------------------------------------------------------------------------------------
(* Strings: names and format codes are sequences of one-character strings *)

Digits == <<"0", "1", "2", "3", "4", "5", "6", "7", "8", "9">>

IsDigit(c) == \E d \in 1..10 : Digits[d] = c

DigitValue(c) == (CHOOSE d \in 1..10 : Digits[d] = c) - 1

\* '%i' % n for n >= 0
RECURSIVE IntToStr(_)
IntToStr(n) ==
    IF n < 10 THEN <<Digits[n + 1]>> ELSE IntToStr(n \div 10) \o <<Digits[(n % 10) + 1]>>

\* int(s) and float(s) of a string of digits: [ok |-> FALSE] stands for the
\* ValueError that the empty string and non-digits raise
RECURSIVE DigitsValue(_)
DigitsValue(s) ==
    IF s = <<>> THEN 0 ELSE 10 * DigitsValue(SubSeq(s, 1, Len(s) - 1)) + DigitValue(s[Len(s)])

ParseNumber(s) ==
    IF s # <<>> /\ \A j \in 1..Len(s) : IsDigit(s[j])
    THEN [ok |-> TRUE, n |-> DigitsValue(s)]
    ELSE [ok |-> FALSE, n |-> 0]

LowerCase == <<"a", "b", "c", "d", "e", "f", "g", "h", "i", "j", "k", "l", "m",
               "n", "o", "p", "q", "r", "s", "t", "u", "v", "w", "x", "y", "z">>
UpperCase == <<"A", "B", "C", "D", "E", "F", "G", "H", "I", "J", "K", "L", "M",
               "N", "O", "P", "Q", "R", "S", "T", "U", "V", "W", "X", "Y", "Z">>

UpperChar(c) ==
    IF \E j \in 1..26 : LowerCase[j] = c
    THEN UpperCase[CHOOSE j \in 1..26 : LowerCase[j] = c]
    ELSE c

\* str.upper()
upper(s) == [j \in 1..Len(s) |-> UpperChar(s[j])]

Last(s) == s[Len(s)]
Front(s) == SubSeq(s, 1, Len(s) - 1)

\* ','.join(names)
RECURSIVE Join(_)
Join(names) ==
    IF names = <<>> THEN <<>>
    ELSE IF Len(names) = 1 THEN names[1]
    ELSE names[1] \o <<",">> \o Join(Tail(names))

\* line.split(','): never an empty list, '' splits into ['']
RECURSIVE Split(_, _)
Split(line, field) ==
    IF line = <<>> THEN <<field>>
    ELSE IF Head(line) = "," THEN <<field>> \o Split(Tail(line), <<>>)
    ELSE Split(Tail(line), field \o <<Head(line)>>)

\* str.strip(): leading and trailing blanks removed
RECURSIVE Strip(_)
Strip(line) ==
    IF line # <<>> /\ Head(line) = " " THEN Strip(Tail(line))
    ELSE IF line # <<>> /\ Last(line) = " " THEN Strip(Front(line))
    ELSE line

-----------------------------------------------------------------------------
(* Cell values: a finite number, nan, +inf, -inf, a string, a vector cell of
   several elements, a packed uint64/long, or a vector of flags *)

Cell(t, v, s, limbs, bits) == [t |-> t, v |-> v, s |-> s, limbs |-> limbs, bits |-> bits]

Num(n) == Cell("num", n, <<>>, <<>>, <<>>)
NaN == Cell("nan", 0, <<>>, <<>>, <<>>)
PInf == Cell("pinf", 0, <<>>, <<>>, <<>>)
NInf == Cell("ninf", 0, <<>>, <<>>, <<>>)
Str(s) == Cell("str", 0, s, <<>>, <<>>)
Vec == Cell("vec", 0, <<>>, <<>>, <<>>)
Long(l) == Cell("long", 0, <<>>, l, <<>>)
Flags(b) == Cell("flags", 0, <<>>, <<>>, b)

\* np.array(flags, dtype=np.uint64) of one long: its low 64 bits
Uint64(l) == [j \in 1..NumLimbs |-> IF j * LimbBits <= DefaultNbits THEN l[j] ELSE 0]

-----------------------------------------------------------------------------
(* BinTableData: an OrderedDict as parallel sequences of keys and series *)

EmptyDict == [keys |-> <<>>, series |-> <<>>]

has_key(d, name) == \E j \in 1..Len(d.keys) : d.keys[j] = name

IndexOf(d, name) == CHOOSE j \in 1..Len(d.keys) : d.keys[j] = name

GetItem(d, name) == d.series[IndexOf(d, name)]

\* d[name] = series: a present key keeps its position, a new key goes last
SetItem(d, name, series) ==
    IF has_key(d, name)
    THEN [d EXCEPT !.series[IndexOf(d, name)] = series]
    ELSE [keys |-> Append(d.keys, name), series |-> Append(d.series, series)]

\* the least length among the lists, zip's number of results; none for no list
RECURSIVE MinLen(_)
MinLen(lists) ==
    IF lists = <<>> THEN 0
    ELSE IF Len(lists) = 1 THEN Len(lists[1])
    ELSE Min(Len(lists[1]), MinLen(Tail(lists)))

\* zip(*lists)
Zip(lists) == [i \in 1..MinLen(lists) |-> [r \in 1..Len(lists) |-> lists[r][i]]]

\* lines 236-239: the names the constructor registers for a bit column, one
\* for each list that zip gives over the records' packed flags
FlagColumnNames(col, nb) ==
    LET packed == [r \in 1..Len(col.data) |-> pack_flags(col.data[r].bits, nb)]
    IN  [i \in 1..MinLen(packed) |-> upper(col.name) \o IntToStr(i)]

\* lines 238-240: the packed columns of one bit column, registered in turn
RECURSIVE RegisterFlags(_, _, _, _)
RegisterFlags(d, names, flag_cols, i) ==
    IF i > Len(flag_cols) THEN d
    ELSE RegisterFlags(
             SetItem(d, names[i],
                     [r \in 1..Len(flag_cols[i]) |-> Long(Uint64(flag_cols[i][r]))]),
             names, flag_cols, i + 1)

\* one pass of the loop of lines 234-242
RegisterColumn(d, col, nb) ==
    IF Last(col.format) = "X"
    THEN RegisterFlags(d, FlagColumnNames(col, nb),
             Zip([r \in 1..Len(col.data) |-> pack_flags(col.data[r].bits, nb)]), 1)
    ELSE SetItem(d, col.name, col.data)

RECURSIVE RegisterColumns(_, _, _)
RegisterColumns(d, columns, nb) ==
    IF columns = <<>> THEN d
    ELSE RegisterColumns(RegisterColumn(d, Head(columns), nb), Tail(columns), nb)

\* BinTableData.__init__: the dict, nrows, and IndexError when nothing was
\* registered (self.values()[0])
BinTableData(table, nb) ==
    LET d == RegisterColumns(EmptyDict, table, nb)
    IN  IF d.keys = <<>>
        THEN [err |-> "IndexError", data |-> d, nrows |-> 0]
        ELSE [err |-> "none", data |-> d, nrows |-> Len(d.series[1])]

-----------------------------------------------------------------------------
(* create_csv_file_from_fits *)

\* [value]*n
ConstantColumn(value, n) == [r \in 1..n |-> value]

\* lines 302-304 with the test and the assignment exchanged, a mutation of
\* AddedColumn
AddedColumnUnchecked(d, n, item) ==
    LET d2 == SetItem(d, item.name, ConstantColumn(item.value, n))
    IN  IF has_key(d, item.name)
        THEN [err |-> "RuntimeError", data |-> d2]
        ELSE [err |-> "none", data |-> d2]

\* lines 302-304 with one element too many, a mutation of AddedColumn
AddedColumnTooLong(d, n, item) ==
    IF has_key(d, item.name)
    THEN [err |-> "RuntimeError", data |-> d]
    ELSE [err |-> "none", data |-> SetItem(d, item.name, ConstantColumn(item.value, n + 1))]

\* one pass of the loop of lines 301-304
AddedColumn(d, n, item) ==
    IF has_key(d, item.name)
    THEN [err |-> "RuntimeError", data |-> d]
    ELSE [err |-> "none", data |-> SetItem(d, item.name, ConstantColumn(item.value, n))]

\* line 306: the identity mapping over the keys
IdentityMapping(d) == [j \in 1..Len(d.keys) |-> [key |-> d.keys[j], val |-> Str(d.keys[j])]]

HasCallback(cbs, name) == \E j \in 1..Len(cbs) : cbs[j].name = name

CallbackOf(cbs, name) == cbs[CHOOSE j \in 1..Len(cbs) : cbs[j].name = name].fn

\* 2*x of one element
Scaled(x) ==
    IF x.t = "num" THEN Num(2 * x.v)
    ELSE IF x.t = "long" THEN Long(Uint64(LongAdd(x.limbs, x.limbs)))
    ELSE x

\* np.where(x == 0, np.nan, x) of one element
ZeroToNaN(x) ==
    IF (x.t = "num" /\ x.v = 0) \/ (x.t = "long" /\ x.limbs = LongZero) THEN NaN ELSE x

\* the callbacks of the model, functions of a whole series: "scale" is
\* lambda x: 2*x and "zero_to_nan" is lambda x: np.where(x == 0, np.nan, x);
\* both raise TypeError on a series of strings
ApplyCallback(fn, coldata) ==
    IF \E r \in 1..Len(coldata) : coldata[r].t = "str"
    THEN [err |-> "TypeError", data |-> <<>>]
    ELSE [err |-> "none",
          data |-> [r \in 1..Len(coldata) |->
                       IF fn = "scale" THEN Scaled(coldata[r]) ELSE ZeroToNaN(coldata[r])]]

\* lines 314-322 for one value of the mapping
ResolveColumn(d, n, cbs, colname) ==
    IF colname.t = "str" /\ has_key(d, colname.s)
    THEN IF HasCallback(cbs, colname.s)
         THEN ApplyCallback(CallbackOf(cbs, colname.s), GetItem(d, colname.s))
         ELSE [err |-> "none", data |-> GetItem(d, colname.s)]
    ELSE [err |-> "none", data |-> ConstantColumn(colname, n)]

\* lines 312-322: the columns in the mapping's order, or the first exception
RECURSIVE ResolveColumns(_, _, _, _, _)
ResolveColumns(d, n, cbs, mapping, j) ==
    IF j > Len(mapping) THEN [err |-> "none", columns |-> <<>>]
    ELSE LET c == ResolveColumn(d, n, cbs, mapping[j].val)
         IN  IF c.err # "none" THEN [err |-> c.err, columns |-> <<>>]
             ELSE LET rest == ResolveColumns(d, n, cbs, mapping, j + 1)
                  IN  [err |-> rest.err, columns |-> <<c.data>> \o rest.columns]

\* np.isfinite(x) of a number
isfinite(x) == x.t \in {"num", "long"}

NullSentinel == Str(<<"\\", "N">>)

\* line 324 with isnan in place of isfinite, a mutation of SerializeField
SerializeFieldNanOnly(x) == IF x.t = "str" \/ x.t # "nan" THEN x ELSE NullSentinel

\* line 324-325 for one element
SerializeField(x) == IF x.t = "str" \/ isfinite(x) THEN x ELSE NullSentinel

\* lines 324-325: the truth value of np.isfinite of a cell of several
\* elements raises ValueError
SerializeRow(row) ==
    IF \E c \in 1..Len(row) : row[c].t = "vec"
    THEN [err |-> "ValueError", fields |-> <<>>]
    ELSE [err |-> "none", fields |-> [c \in 1..Len(row) |-> SerializeField(row[c])]]

\* lines 323-326: the records written until a row raises
RECURSIVE WriteRows(_, _)
WriteRows(rows, i) ==
    IF i > Len(rows) THEN [err |-> "none", records |-> <<>>]
    ELSE LET r == SerializeRow(rows[i])
         IN  IF r.err # "none" THEN [err |-> r.err, records |-> <<>>]
             ELSE LET rest == WriteRows(rows, i + 1)
                  IN  [err |-> rest.err, records |-> <<r.fields>> \o rest.records]

\* lines 305-326: the header, the records written and the exception, if any
EmitCsv(d, n, cmap, cbs) ==
    LET mapping == IF cmap.isNone THEN IdentityMapping(d) ELSE cmap.items
        colnames == [j \in 1..Len(mapping) |-> mapping[j].key]
        resolved == ResolveColumns(d, n, cbs, mapping, 1)
        written == WriteRows(Zip(resolved.columns), 1)
    IN  IF resolved.err # "none"
        THEN [err |-> resolved.err, header |-> colnames, records |-> <<>>]
        ELSE [err |-> written.err, header |-> colnames, records |-> written.records]

NoFile == [state |-> "absent", header |-> <<>>, records |-> <<>>]

\* line 299
Materialize ==
    /\ pc.csv = "start"
    /\ LET b == BinTableData(bintable, DefaultNbits)
       IN  /\ bintable_data' = b.data
           /\ nrows' = b.nrows
           /\ err' = [err EXCEPT !.csv = b.err]
           /\ pc' = [pc EXCEPT !.csv = IF b.err = "none" THEN "add" ELSE "failed"]
    /\ UNCHANGED <<packVars, bintable, added_columns, column_mapping, callbacks,
                   csv_output, schemaVars, loadVars>>

\* lines 301-304, one item of added_columns
AddColumn ==
    /\ pc.csv = "add"
    /\ added_columns # <<>>
    /\ LET a == AddedColumn(bintable_data, nrows, Head(added_columns))
       IN  /\ bintable_data' = a.data
           /\ err' = [err EXCEPT !.csv = a.err]
           /\ pc' = [pc EXCEPT !.csv = IF a.err = "none" THEN "add" ELSE "failed"]
    /\ added_columns' = Tail(added_columns)
    /\ UNCHANGED <<packVars, bintable, column_mapping, callbacks, nrows,
                   csv_output, schemaVars, loadVars>>

\* lines 305-326
WriteCsv ==
    /\ pc.csv = "add"
    /\ added_columns = <<>>
    /\ LET e == EmitCsv(bintable_data, nrows, column_mapping, callbacks)
       IN  /\ csv_output' = [state |-> "written", header |-> e.header, records |-> e.records]
           /\ err' = [err EXCEPT !.csv = e.err]
           /\ pc' = [pc EXCEPT !.csv = IF e.err = "none" THEN "done" ELSE "failed"]
    /\ UNCHANGED <<packVars, bintable, added_columns, column_mapping, callbacks,
                   bintable_data, nrows, schemaVars, loadVars>>

-----------------------------------------------------------------------------
(* create_schema_from_fits, write_schema_column, write_bit_schema_column *)

\* a line of the schema file
Line(kind, name, type) == [kind |-> kind, name |-> name, type |-> type]

\* str.strip("'")
RECURSIVE StripQuotes(_)
StripQuotes(f) ==
    IF f # <<>> /\ Head(f) = "'" THEN StripQuotes(Tail(f))
    ELSE IF f # <<>> /\ Last(f) = "'" THEN StripQuotes(Front(f))
    ELSE f

\* the keys of type_map
InTypeMap(f) == f \in {<<"1", "D">>, <<"1", "E">>, <<"1", "K">>, <<"1", "J">>, <<"1", "I">>}

\* type_map[f]
type_map(f) ==
    CASE f = <<"1", "D">> -> "DOUBLE"
      [] f = <<"1", "E">> -> "FLOAT"
      [] f = <<"1", "K">> -> "BIGINT"
      [] f = <<"1", "J">> -> "INT"
      [] f = <<"1", "I">> -> "SMALLINT"

\* write_bit_schema_column with the column count rounded down, a mutation
write_bit_schema_column_floor(column) ==
    LET format_ == StripQuotes(column.format)
        num_bits == ParseNumber(Front(format_))
        ncols == num_bits.n \div colsize
    IN  IF ~num_bits.ok THEN [err |-> "ValueError", lines |-> <<>>]
        ELSE [err |-> "none",
              lines |-> [icol \in 1..ncols |->
                            Line("column", upper(column.name) \o IntToStr(icol),
                                 "BIGINT UNSIGNED")]]

\* write_bit_schema_column: the lines written, or the ValueError of float()
write_bit_schema_column(column) ==
    LET format_ == StripQuotes(column.format)
        num_bits == ParseNumber(Front(format_))
        ncols == CeilDiv(num_bits.n, colsize)
    IN  IF ~num_bits.ok THEN [err |-> "ValueError", lines |-> <<>>]
        ELSE [err |-> "none",
              lines |-> [icol \in 1..ncols |->
                            Line("column", upper(column.name) \o IntToStr(icol),
                                 "BIGINT UNSIGNED")]]

\* write_schema_column: the lines written, or the ValueError of int() or the
\* KeyError of type_map[format_]
write_schema_column(column) ==
    LET format_ == StripQuotes(column.format)
        count == ParseNumber(Front(format_))
    IN  IF Last(format_) = "X" THEN write_bit_schema_column(column)
        ELSE IF ~count.ok THEN [err |-> "ValueError", lines |-> <<>>]
        ELSE IF count.n # 1 THEN [err |-> "none", lines |-> <<>>]
        ELSE IF ~InTypeMap(format_) THEN [err |-> "KeyError", lines |-> <<>>]
        ELSE [err |-> "none", lines |-> <<Line("column", column.name, type_map(format_))>>]

\* lines 353-354: the lines of the columns until one raises
RECURSIVE WriteColumns(_, _)
WriteColumns(columns, j) ==
    IF j > Len(columns) THEN [err |-> "none", lines |-> <<>>]
    ELSE LET c == write_schema_column(columns[j])
         IN  IF c.err # "none" THEN c
             ELSE LET rest == WriteColumns(columns, j + 1)
                  IN  [err |-> rest.err, lines |-> c.lines \o rest.lines]

\* create_schema_from_fits: the lines written and the exception, if any
create_schema_from_fits(table, extra) ==
    LET first == <<Line("create", <<>>, "")>>
        cols == WriteColumns(table, 1)
    IN  IF cols.err # "none"
        THEN [err |-> cols.err, lines |-> first \o cols.lines]
        ELSE [err |-> "none",
              lines |-> first \o cols.lines
                        \o [j \in 1..Len(extra) |-> Line("extra", extra[j].name, extra[j].type)]
                        \o <<Line("close", <<>>, "")>>]

\* lines 190-199: "none", or the RuntimeError of a different number of
\* columns or of a different name
check_column_names(column_names, first_line) ==
    LET cols == Split(Strip(first_line), <<>>)
    IN  IF Len(cols) # Len(column_names) THEN "RuntimeError"
        ELSE IF \E j \in 1..Len(cols) : cols[j] # column_names[j] THEN "RuntimeError"
        ELSE "none"

\* the column names of the table that a schema file creates
SchemaColumnNames(lines) ==
    LET cols == SelectSeq(lines, LAMBDA l : l.kind \in {"column", "extra"})
    IN  [j \in 1..Len(cols) |-> cols[j].name]

\* lines 349-358
CreateSchema ==
    /\ pc.schema = "start"
    /\ LET r == create_schema_from_fits(bintable, add_columns)
       IN  /\ output' = [state |-> "written", lines |-> r.lines]
           /\ err' = [err EXCEPT !.schema = r.err]
           /\ pc' = [pc EXCEPT !.schema = IF r.err = "none" THEN "done" ELSE "failed"]
    /\ UNCHANGED <<packVars, bintable, csvVars, add_columns, loadVars>>

\* check_column_names on the csv file against the table of the schema file
CheckSchemaColumns ==
    /\ pc.csv = "done" /\ pc.schema = "done" /\ pc.load = "start"
    /\ csv_cols' = Split(Strip(Join(csv_output.header)), <<>>)
    /\ err' = [err EXCEPT !.load =
                  check_column_names(SchemaColumnNames(output.lines), Join(csv_output.header))]
    /\ pc' = [pc EXCEPT !.load = "checked"]
    /\ UNCHANGED <<packVars, bintable, csvVars, schemaVars, table_columns, data_types,
                   sql_log, commits>>

-----------------------------------------------------------------------------
(* DbConnection.load_csv *)

\* dtype_tuple: the rows of the cursor, each kept once, in order of first
\* appearance (the keys of an OrderedDict)
RECURSIVE dtype_tuple(_)
dtype_tuple(rows) ==
    IF rows = <<>> THEN <<>>
    ELSE LET front == dtype_tuple(Front(rows))
         IN  IF \E j \in 1..Len(front) : front[j] = Last(rows)
             THEN front ELSE Append(front, Last(rows))

\* dt_pair[1].find('char') == -1, for the data types of the model
NoChar(data_type) == data_type \notin {"char", "varchar"}

\* the keys of dtypes, lines 156-160
InDtypes(data_type) == data_type \in {"int", "bigint", "tinyint", "float", "double"}

\* lines 154-169: "none", or the KeyError of dtypes[data_type]
CastList(rows) ==
    IF \E j \in 1..Len(rows) : NoChar(rows[j].type) /\ ~InDtypes(rows[j].type)
    THEN "KeyError" ELSE "none"

\* lines 138-145: apply(query, cursorFunc=dtype_tuple) executes the query and
\* does not commit
Introspect ==
    /\ pc.load = "start"
    /\ sql_log' = Append(sql_log, "SELECT")
    /\ data_types' = dtype_tuple(table_columns)
    /\ pc' = [pc EXCEPT !.load = "check"]
    /\ UNCHANGED <<err, packVars, bintable, csvVars, schemaVars, table_columns,
                   csv_cols, commits>>

\* lines 150-151
CheckColumnNames ==
    /\ pc.load = "check"
    /\ LET column_names == [j \in 1..Len(data_types) |-> data_types[j].name]
           e == check_column_names(column_names, Join(csv_output.header))
       IN  /\ csv_cols' = Split(Strip(Join(csv_output.header)), <<>>)
           /\ err' = [err EXCEPT !.load = e]
           /\ pc' = [pc EXCEPT !.load = IF e = "none" THEN "load" ELSE "failed"]
    /\ UNCHANGED <<packVars, bintable, csvVars, schemaVars, table_columns, data_types,
                   sql_log, commits>>

\* lines 152-170: the statement is built, and apply(sql) executes and commits
LoadData ==
    /\ pc.load = "load"
    /\ LET e == CastList(data_types)
       IN  /\ err' = [err EXCEPT !.load = e]
           /\ pc' = [pc EXCEPT !.load = IF e = "none" THEN "done" ELSE "failed"]
           /\ sql_log' = IF e = "none" THEN Append(sql_log, "LOAD DATA") ELSE sql_log
           /\ commits' = IF e = "none" THEN commits + 1 ELSE commits
    /\ UNCHANGED <<packVars, bintable, csvVars, schemaVars, table_columns, data_types,
                   csv_cols>>

-----------------------------------------------------------------------------
(* Inputs: binary tables *)

Name_ra == <<"r", "a">>
Name_F1 == <<"F", "1">>
Name_f == <<"f">>
Name_p == <<"p">>
Name_x == <<"x">>
Name_y == <<"y">>

\* the format code a column of each kind of data is declared with
FormatOfPattern(p) ==
    IF p = "str" THEN <<"8", "A">> ELSE IF p = "vec" THEN <<"3", "E">> ELSE <<"1", "D">>

\* the cell of record r of a scalar column, by kind of data
ScalarCell(p, r) ==
    CASE p = "fin" -> Num(r % 2)
      [] p = "nan" -> (IF r = 1 THEN NaN ELSE Num(1))
      [] p = "inf" -> (IF r % 2 = 1 THEN PInf ELSE NInf)
      [] p = "str" -> Str(<<"s">>)
      [] p = "vec" -> Vec

ScalarPatterns == {"fin", "nan", "inf", "str", "vec"}

\* the cell of record r of a bit column of width w: alternating flags that
\* start with the record's parity, or no flag set
FlagCell(p, w, r) == Flags([j \in 1..w |-> p = "alt" /\ (j + r) % 2 = 0])

FlagPatterns == {"alt", "zero"}

ScalarColumn(nm, fmt, p, n) ==
    [name |-> nm, format |-> fmt, data |-> [r \in 1..n |-> ScalarCell(p, r)]]

FlagColumn(nm, fmt, w, p, n) ==
    [name |-> nm, format |-> fmt, data |-> [r \in 1..n |-> FlagCell(p, w, r)]]

DistinctNames(t) == \A i, j \in 1..Len(t) : i # j => t[i].name # t[j].name

TablesOver(columns) ==
    {t \in UNION {[1..m -> columns] : m \in 0..MaxCols} : DistinctNames(t)}

CsvColumns(n) ==
    {ScalarColumn(Name_ra, FormatOfPattern(p), p, n) : p \in ScalarPatterns}
    \cup {ScalarColumn(Name_F1, FormatOfPattern("fin"), "fin", n)}
    \cup {FlagColumn(Name_f, IntToStr(w) \o <<"X">>, w, "alt", n) : w \in {2, DefaultNbits + 1}}
    \cup {FlagColumn(Name_f, <<"2", "X">>, 2, "zero", n)}

CsvTables == UNION {TablesOver(CsvColumns(n)) : n \in 0..MaxRows}

AddedColumnsInputs ==
    { <<>>,
      <<[name |-> Name_ra, value |-> Num(1)]>>,
      <<[name |-> Name_p, value |-> NaN]>>,
      <<[name |-> Name_p, value |-> Str(<<"s">>)], [name |-> Name_ra, value |-> Num(0)]>> }

None == [isNone |-> TRUE, items |-> <<>>]
Mapping(items) == [isNone |-> FALSE, items |-> items]

ColumnMappingInputs ==
    { None,
      Mapping(<<[key |-> Name_x, val |-> Str(Name_ra)], [key |-> Name_y, val |-> Num(0)]>>),
      Mapping(<<[key |-> Name_y, val |-> PInf], [key |-> Name_x, val |-> Str(Name_p)]>>) }

CallbacksInputs ==
    { <<>>,
      <<[name |-> Name_ra, fn |-> "scale"]>>,
      <<[name |-> Name_ra, fn |-> "zero_to_nan"]>> }

-----------------------------------------------------------------------------
(* Specification of create_csv_file_from_fits *)

Calls == {"pack", "csv", "schema", "load"}

Only(call) == [c \in Calls |-> IF c = call THEN "start" ELSE "off"]

NoErr == [c \in Calls |-> "none"]

PackIdle == flags = <<>> /\ nbits = DefaultNbits /\ values = <<>>

CsvIdle ==
    /\ added_columns = <<>> /\ column_mapping = None /\ callbacks = <<>>
    /\ bintable_data = EmptyDict /\ nrows = 0 /\ csv_output = NoFile

NoSchema == [state |-> "absent", lines |-> <<>>]

SchemaIdle == add_columns = <<>> /\ output = NoSchema

LoadIdle ==
    /\ table_columns = <<>> /\ data_types = <<>> /\ csv_cols = <<>>
    /\ sql_log = <<>> /\ commits = 0

InitCsv ==
    /\ pc = Only("csv") /\ err = NoErr
    /\ bintable \in CsvTables
    /\ added_columns \in AddedColumnsInputs
    /\ column_mapping \in ColumnMappingInputs
    /\ callbacks \in CallbacksInputs
    /\ bintable_data = EmptyDict /\ nrows = 0 /\ csv_output = NoFile
    /\ PackIdle /\ SchemaIdle /\ LoadIdle

NextCsv == Materialize \/ AddColumn \/ WriteCsv

SpecCsv == InitCsv /\ [][NextCsv]_vars

-----------------------------------------------------------------------------
(* Specification of pack_flags *)

BoolSeqs(n) == UNION {[1..m -> BOOLEAN] : m \in 0..n}

\* true, false, true, ... of length n
Alternating(n) == [j \in 1..n |-> j % 2 = 1]

FlagInputs == BoolSeqs(MaxFlags) \cup {Alternating(DefaultNbits), Alternating(DefaultNbits + 1)}

Widths == (1..MaxWidth) \cup {DefaultNbits}

InitPack ==
    /\ pc = Only("pack") /\ err = NoErr
    /\ flags \in FlagInputs /\ nbits \in Widths /\ values = <<>>
    /\ bintable = <<>>
    /\ CsvIdle /\ SchemaIdle /\ LoadIdle

PackFlags ==
    /\ pc.pack = "start"
    /\ values' = pack_flags(flags, nbits)
    /\ pc' = [pc EXCEPT !.pack = "done"]
    /\ UNCHANGED <<err, flags, nbits, bintable, csvVars, schemaVars, loadVars>>

NextPack == PackFlags

SpecPack == InitPack /\ [][NextPack]_vars

-----------------------------------------------------------------------------
(* C1: pack_flags(f, w) returns ceil(len(f)/w) integers; bit i of the k-th
   integer is 1 exactly when f[k*w+i] is true, no bit at or above a chunk's
   length is set, and 64 flags alternating from true pack to
   0x5555555555555555. *)

Hex5555555555555555 == <<21845, 21845, 21845, 21845, 0>>

C1_PackFlagsBits ==
    pc.pack = "done" =>
        /\ Len(values) * nbits >= Len(flags)
        /\ Len(values) > 0 => (Len(values) - 1) * nbits < Len(flags)
        /\ \A k \in 0..(Len(values) - 1) : \A i \in 0..(NumLimbs * LimbBits - 1) :
              LongBit(values[k + 1], i) =
                  (IF i < nbits /\ k * nbits + i < Len(flags) /\ flags[k * nbits + i + 1]
                   THEN 1 ELSE 0)
        /\ (flags = Alternating(DefaultNbits) /\ nbits = DefaultNbits) =>
              values = <<Hex5555555555555555>>

C1_Witness ==
    /\ pc.pack = "done" /\ nbits = DefaultNbits /\ flags = Alternating(DefaultNbits)
    /\ values = <<Hex5555555555555555>>

-----------------------------------------------------------------------------
(* C3: adding a constant column under a name the table already holds fails
   with the duplicate-column error and leaves the table as it was before
   that add: the same names in the same order, the same series, the same
   row count. *)

C3_DuplicateAddLeavesTable ==
    [][(/\ pc.csv = "add"
        /\ added_columns # <<>>
        /\ \E j \in 1..Len(bintable_data.keys) :
               bintable_data.keys[j] = Head(added_columns).name)
       => (/\ pc'.csv = "failed"
           /\ err'.csv = "RuntimeError"
           /\ bintable_data'.keys = bintable_data.keys
           /\ bintable_data'.series = bintable_data.series
           /\ nrows' = nrows)]_vars

C3_Witness ==
    /\ pc.csv = "failed" /\ err.csv = "RuntimeError"
    /\ \E j \in 1..Len(bintable_data.keys) : bintable_data.keys[j] = Name_p
    /\ \E j \in 1..Len(bintable_data.keys) : bintable_data.keys[j] = Name_ra
    /\ nrows >= 1

(* C4: once the table is built, and after every successful addition of a
   constant column, every registered series has exactly nrows elements and
   nrows is the length of the first registered series. *)

C4_SeriesHaveRowCount ==
    (pc.csv \in {"add", "done", "failed"} /\ err.csv # "IndexError") =>
        /\ bintable_data.keys # <<>>
        /\ Len(bintable_data.series) = Len(bintable_data.keys)
        /\ nrows = Len(bintable_data.series[1])
        /\ \A j \in 1..Len(bintable_data.series) : Len(bintable_data.series[j]) = nrows

C4_Witness ==
    /\ pc.csv = "add" /\ added_columns = <<>> /\ nrows >= 2
    /\ \E j \in 1..Len(bintable_data.keys) : bintable_data.keys[j] = Name_p
    /\ \E j \in 1..Len(bintable_data.keys) : bintable_data.keys[j] = <<"F", "2">>

(* C5: the CSV emitter writes the header and then exactly nrows records,
   each with one field per key of the column mapping, in the mapping's key
   order. *)

C5_CsvRecordCount ==
    csv_output.state = "written" =>
        /\ csv_output.header =
              (IF column_mapping.isNone THEN bintable_data.keys
               ELSE [j \in 1..Len(column_mapping.items) |-> column_mapping.items[j].key])
        /\ Len(csv_output.records) = nrows
        /\ \A i \in 1..Len(csv_output.records) :
              Len(csv_output.records[i]) = Len(csv_output.header)

(* C6: every value written to a data row is written unchanged when it is a
   string or a finite number, and as the sentinel \N when it is nan, +inf
   or -inf; no written field is a non-finite number. *)

C6_NonFiniteAsNull ==
    csv_output.state = "written" =>
        LET mapping == IF column_mapping.isNone THEN IdentityMapping(bintable_data)
                       ELSE column_mapping.items
            source == ResolveColumns(bintable_data, nrows, callbacks, mapping, 1).columns
        IN  \A i \in 1..Len(csv_output.records) : \A c \in 1..Len(csv_output.records[i]) :
                LET x == source[c][i]
                    field == csv_output.records[i][c]
                IN  /\ x.t = "str" => field = x
                    /\ x.t \in {"num", "long"} => field = x
                    /\ x.t \in {"nan", "pinf", "ninf"} => field = Str(<<"\\", "N">>)
                    /\ field.t \notin {"nan", "pinf", "ninf"}

C6_Witness ==
    /\ pc.csv = "done"
    /\ \E i \in 1..Len(csv_output.records) :
          /\ \E c \in 1..Len(csv_output.records[i]) : csv_output.records[i][c] = Str(<<"\\", "N">>)
          /\ \E c \in 1..Len(csv_output.records[i]) : csv_output.records[i][c].t = "long"
    /\ \E j \in 1..Len(bintable_data.series) : \E r \in 1..nrows :
          bintable_data.series[j][r].t \in {"pinf", "ninf"}

-----------------------------------------------------------------------------
(* Specification of the csv file and the schema file of one binary table *)

Name_d == <<"d">>
Name_project == <<"p", "r", "o", "j", "e", "c", "t">>

ScalarFormats == { <<"1", "D">>, <<"D">>, <<"1", "E">>, <<"1", "K">>, <<"1", "J">>,
                   <<"1", "I">>, <<"1", "A">>, <<"3", "E">> }

\* the declared widths of the bit columns
FlagWidths == {0, 2, DefaultNbits, DefaultNbits + 1, 142}

SchemaColumns(n) ==
    {ScalarColumn(Name_ra, f, IF f = <<"3", "E">> THEN "vec" ELSE
                               IF f = <<"1", "A">> THEN "str" ELSE "fin", n) : f \in ScalarFormats}
    \cup {ScalarColumn(Name_d, <<"1", "D">>, "fin", n)}
    \cup {FlagColumn(Name_f, IntToStr(w) \o <<"X">>, w, "alt", n) : w \in FlagWidths}
    \cup {FlagColumn(Name_f, <<"X">>, 1, "alt", n)}    \* no declared width: one bit

SchemaTables == UNION {TablesOver(SchemaColumns(n)) : n \in 0..MaxRows}

AddColumnsInputs == { <<>>, <<[name |-> Name_project, type |-> "INT"]>> }

InitSchema ==
    /\ pc = [c \in Calls |-> IF c = "pack" THEN "off" ELSE "start"] /\ err = NoErr
    /\ bintable \in SchemaTables
    /\ add_columns \in AddColumnsInputs
    /\ output = NoSchema
    /\ CsvIdle /\ PackIdle /\ LoadIdle

NextSchema == Materialize \/ WriteCsv \/ CreateSchema \/ CheckSchemaColumns

SpecSchema == InitSchema /\ [][NextSchema]_vars

-----------------------------------------------------------------------------
(* C2: for every bit-array column of name C and declared width W, the
   constructor of BinTableData and write_bit_schema_column each produce
   exactly ceil(W/64) columns, named UPPERCASE(C)1, UPPERCASE(C)2, ... in
   that order. *)

IsFlagColumn(col) == col.format[Len(col.format)] = "X"

HasDeclaredWidth(col) ==
    /\ Len(col.format) >= 2
    /\ \A j \in 1..(Len(col.format) - 1) : col.format[j] \in {"0", "1", "2", "3", "4", "5", "6", "7", "8", "9"}

\* W is the length of every record's flag vector of a column that declares it
DeclaredWidth(col) == Len(col.data[1].bits)

NumberedNames(base, count) == [i \in 1..count |-> upper(base) \o IntToStr(i)]

LineNames(lines) == [j \in 1..Len(lines) |-> lines[j].name]

BothSidesNamed(col, count) ==
    /\ FlagColumnNames(col, DefaultNbits) = NumberedNames(col.name, count)
    /\ write_bit_schema_column(col).err = "none"
    /\ LineNames(write_bit_schema_column(col).lines) = NumberedNames(col.name, count)
    /\ \A j \in 1..count : write_bit_schema_column(col).lines[j].type = "BIGINT UNSIGNED"

\* C2 as stated: for every table, the tables of no record included
C2_EveryTable ==
    (pc.csv # "start" /\ pc.schema # "start") =>
        \A j \in 1..Len(bintable) :
            (IsFlagColumn(bintable[j]) /\ HasDeclaredWidth(bintable[j])) =>
                LET W == DigitsValue(SubSeq(bintable[j].format, 1, Len(bintable[j].format) - 1))
                    count == IF W % 64 = 0 THEN W \div 64 ELSE (W \div 64) + 1
                IN  BothSidesNamed(bintable[j], count)

\* C2 for the tables of at least one record; the names are then keys
\* of the table, and lines of a completed schema file
C2_TablesWithRecords ==
    (pc.csv # "start" /\ pc.schema # "start") =>
        \A j \in 1..Len(bintable) :
            (/\ IsFlagColumn(bintable[j]) /\ HasDeclaredWidth(bintable[j])
             /\ Len(bintable[j].data) >= 1) =>
                LET W == DigitsValue(SubSeq(bintable[j].format, 1, Len(bintable[j].format) - 1))
                    count == IF W % 64 = 0 THEN W \div 64 ELSE (W \div 64) + 1
                IN  /\ W = DeclaredWidth(bintable[j])
                    /\ BothSidesNamed(bintable[j], count)
                    /\ \A i \in 1..count :
                          /\ \E k \in 1..Len(bintable_data.keys) :
                                bintable_data.keys[k] = NumberedNames(bintable[j].name, count)[i]
                          /\ pc.schema = "done" =>
                                \E k \in 1..Len(output.lines) :
                                    /\ output.lines[k].kind = "column"
                                    /\ output.lines[k].name = NumberedNames(bintable[j].name, count)[i]

C2_Witness ==
    /\ pc.csv = "done" /\ pc.schema = "done" /\ nrows >= 1
    /\ \E j \in 1..Len(bintable) : bintable[j].format = <<"1", "4", "2", "X">>
    /\ \E k \in 1..Len(bintable_data.keys) : bintable_data.keys[k] = <<"F", "3">>
    /\ \E k \in 1..Len(output.lines) : output.lines[k].name = <<"F", "3">>

(* C7: for every column that is no bit array and has multiplicity 1 (a type
   letter, after a prefix of 1 or none), write_schema_column either writes the
   one line '<name> <SQL_TYPE>,' of the table D, E, K, J, I, or, when the
   letter is not in the table, fails with the unknown-format-code error
   (the KeyError of type_map); it writes no other type and never skips the
   column. *)

SqlTypeOfLetter(letter) ==
    CASE letter = "D" -> "DOUBLE"
      [] letter = "E" -> "FLOAT"
      [] letter = "K" -> "BIGINT"
      [] letter = "J" -> "INT"
      [] letter = "I" -> "SMALLINT"
      [] OTHER -> "none"

C7_ScalarLineOrUnknownFormat ==
    pc.schema # "start" =>
        \A j \in 1..Len(bintable) :
            LET col == bintable[j]
                letter == col.format[Len(col.format)]
                prefix == SubSeq(col.format, 1, Len(col.format) - 1)
                r == write_schema_column(col)
            IN  (letter # "X" /\ prefix \in {<<>>, <<"1">>}) =>
                    IF SqlTypeOfLetter(letter) # "none"
                    THEN /\ r.err = "none"
                         /\ r.lines = <<[kind |-> "column", name |-> col.name,
                                         type |-> SqlTypeOfLetter(letter)]>>
                    ELSE r.err = "KeyError" /\ r.lines = <<>>

(* C9: create_schema_from_fits and create_csv_file_from_fits either complete
   with the whole file written, or fail with no part of the file written. *)

C9_NoPartialOutput ==
    /\ pc.schema = "failed" => output.state = "absent"
    /\ pc.schema = "done" =>
          /\ output.lines[1].kind = "create"
          /\ output.lines[Len(output.lines)].kind = "close"
    /\ pc.csv = "failed" => csv_output.state = "absent"
    /\ pc.csv = "done" => Len(csv_output.records) = nrows

(* C10: for a table of at least one record whose columns are scalars of
   multiplicity 1 with a letter of the table, or bit arrays of width >= 1,
   the header of the csv file (identity mapping, no added column) is the
   sequence of the column names of the schema file (no extra column), and
   check_column_names on the two raises nothing. *)

C10_Column(col) ==
    LET letter == col.format[Len(col.format)]
        prefix == SubSeq(col.format, 1, Len(col.format) - 1)
    IN  IF letter = "X" THEN Len(col.data[1].bits) >= 1
        ELSE prefix \in {<<>>, <<"1">>} /\ SqlTypeOfLetter(letter) # "none"

C10_Table ==
    /\ bintable # <<>>
    /\ \A j \in 1..Len(bintable) : Len(bintable[j].data) >= 1 /\ C10_Column(bintable[j])
    /\ add_columns = <<>>

\* C10: the header equals the schema's column names and the check raises nothing
C10_HeaderIsSchema ==
    (C10_Table /\ pc.csv \in {"done", "failed"} /\ pc.schema \in {"done", "failed"}) =>
        /\ pc.csv = "done" /\ pc.schema = "done"
        /\ csv_output.header =
              [j \in 1..Len(SelectSeq(output.lines, LAMBDA l : l.kind # "create" /\ l.kind # "close")) |->
                  SelectSeq(output.lines, LAMBDA l : l.kind # "create" /\ l.kind # "close")[j].name]
        /\ pc.load = "checked" => err.load = "none"

-----------------------------------------------------------------------------
(* Specification of load_csv *)

Name_a == <<"a">>
Name_b == <<"b">>

DataTypes == {"int", "smallint", "double", "varchar"}

TableRows == {[name |-> n, type |-> t] : n \in {Name_a, Name_b}, t \in DataTypes}

TableColumnsInputs == UNION {[1..m -> TableRows] : m \in 0..MaxCols}

HeaderInputs == UNION {[1..m -> {Name_a, Name_b}] : m \in 1..MaxCols}

InitLoad ==
    /\ pc = Only("load") /\ err = NoErr
    /\ table_columns \in TableColumnsInputs
    /\ csv_output \in {[state |-> "written", header |-> h, records |-> <<>>] : h \in HeaderInputs}
    /\ data_types = <<>> /\ csv_cols = <<>> /\ sql_log = <<>> /\ commits = 0
    /\ bintable = <<>>
    /\ added_columns = <<>> /\ column_mapping = None /\ callbacks = <<>>
    /\ bintable_data = EmptyDict /\ nrows = 0
    /\ PackIdle /\ SchemaIdle

NextLoad == Introspect \/ CheckColumnNames \/ LoadData

SpecLoad == InitLoad /\ [][NextLoad]_vars

(* C8: in load_csv the column check runs after the introspection and before
   the bulk load; when the number of names on the csv file's first line
   differs from the number of introspected columns, or a name differs from
   the column's at its position, load_csv fails with the mismatch error and
   LOAD DATA is never executed and nothing is committed; when number and
   names agree, no error is raised and LOAD DATA is executed exactly once. *)

C8_Mismatch ==
    \/ Len(csv_output.header) # Len(data_types)
    \/ \E j \in 1..Len(data_types) : csv_output.header[j] # data_types[j].name

\* C8: SELECT first, no LOAD DATA before the check, failure without load on a
\* mismatch, exactly one LOAD DATA otherwise
C8_CheckBeforeLoad ==
    /\ pc.load \in {"load", "done", "failed"} => sql_log[1] = "SELECT"
    /\ pc.load \in {"start", "check"} => \A j \in 1..Len(sql_log) : sql_log[j] # "LOAD DATA"
    /\ (pc.load \in {"load", "done", "failed"} /\ C8_Mismatch) =>
          /\ pc.load = "failed" /\ err.load = "RuntimeError"
          /\ \A j \in 1..Len(sql_log) : sql_log[j] # "LOAD DATA"
          /\ commits = 0
    /\ (pc.load \in {"done", "failed"} /\ ~C8_Mismatch) =>
          /\ pc.load = "done" /\ err.load = "none"
          /\ Cardinality({j \in 1..Len(sql_log) : sql_log[j] = "LOAD DATA"}) = 1

====
